---- MODULE Spec2Model ----
(***************************************************************************)
(* The access-control ledger of src/blockchain.py: a proof-of-work sealed  *)
(* chain of blocks holding ACCESS_GRANT / ACCESS_REVOKE transactions, and  *)
(* the queries that read it.                                               *)
(*                                                                         *)
(* A digest is a sequence of HashLen symbols over 0 .. DigestRadix-1 (the  *)
(* code's digest is 64 hexadecimal characters); sha256 is replaced by a    *)
(* deterministic mixing function over the canonical serialisation of the   *)
(* block.  Wall-clock readings are integers (seconds).                     *)
(***************************************************************************)
EXTENDS Integers, Sequences, FiniteSets, TLC

\* ------------------------------------------------------------------ bounds
MaxChain == 4        \* grant_access / revoke_access stop when the chain has this many blocks
DigestRadix == 2     \* number of digest symbols (16 in the code)
HashLen == 4         \* number of symbols of a digest (64 in the code)
BatchMaxTx == 2      \* transactions a caller hands to add_transaction in the batch specification
FullMaxChain == 3    \* chain length at which the calls of the full-interface specification stop
ValidatorMaxChain == 3   \* longest chain handed to is_chain_valid in the validator specification
ConcMaxCalls == 2    \* grant_access / revoke_access calls the request threads make in all
SealMaxChain == 3    \* chain length at which the calls of the sealer specification stop
AppMaxChain == 3     \* chain length at which the web application stops taking grant requests
IsoMaxChain == 3     \* chain length at which the calls of the three-identity specification stop

\* ------------------------------------------------------- inputs of the model
Ids == {"did:vpn:A", "did:vpn:B"}
Pairs == {<<"did:vpn:A", "did:vpn:B">>, <<"did:vpn:B", "did:vpn:A">>}
Durations == {0, 60}
ClockValues == {0, 59, 61}
\* durations of the full-interface specification: int(duration) accepts a negative one
FullDurations == {-1, 0, 60}
\* request threads of the web application
Threads == {1, 2}

VARIABLES chain, pending_transactions, difficulty, now, last,
          calls,     \* the writer calls in flight, one per request thread
          history,   \* the transactions returned to callers; whether two calls overlapped
          demo_blockchain   \* the ledger constructed by DemoController.__init__

vars == <<chain, pending_transactions, difficulty, now, last, calls, history,
          demo_blockchain>>

\* ------------------------------------------------------------ transactions
GenesisTx == [type |-> "Genesis Block"]

\* isinstance(transaction, dict): the genesis entry is a plain string
IsDict(transaction) == transaction.type # "Genesis Block"

\* the dict grant_access builds.  int(duration) leaves the integer durations of the model
\* as they are; the two datetime.now() reads of lines 88-89 and the time.time() of the
\* block fall in one clock reading t (the call runs within one second of the clock);
\* the isoformat() text of the timestamp is kept as the reading it renders
GrantTx(owner_did, target_did, duration, t) ==
    [type |-> "ACCESS_GRANT", owner_did |-> owner_did, target_did |-> target_did,
     duration |-> duration, timestamp |-> t, expires_at |-> t + duration]

RevokeTx(owner_did, target_did, t) ==
    [type |-> "ACCESS_REVOKE", owner_did |-> owner_did, target_did |-> target_did,
     timestamp |-> t]

\* --------------------------------------------------------------- Hasher
HashMult == 31
HashSeed == 7

RECURSIVE Pow(_, _)
Pow(b, e) == IF e = 0 THEN 1 ELSE b * Pow(b, e - 1)

HashModulus == Pow(DigestRadix, HashLen)

\* place value of the i-th digest symbol, most significant first
Weight == [i \in 1..HashLen |-> Pow(DigestRadix, HashLen - i)]

IdCode(id) == CASE id = "did:vpn:A" -> 1 [] id = "did:vpn:B" -> 2 [] OTHER -> 3

\* absorb one serialised token into the running digest state
Mix(h, tok) == (h * HashMult + tok + 1) % HashModulus

\* a string of digest symbols, serialised with its length
RECURSIVE MixStr(_, _, _)
MixStr(h, s, i) == IF i > Len(s) THEN h ELSE MixStr(Mix(h, s[i]), s, i + 1)

\* one transaction, keys in sorted order (sort_keys=True); the genesis entry is a string
MixTx(h, tx) ==
    IF ~IsDict(tx) THEN Mix(h, 11)
    ELSE IF tx.type = "ACCESS_GRANT"
         THEN Mix(Mix(Mix(Mix(Mix(Mix(h, tx.duration), tx.expires_at), IdCode(tx.owner_did)),
                          IdCode(tx.target_did)), tx.timestamp), 12)
         ELSE Mix(Mix(Mix(Mix(h, IdCode(tx.owner_did)), IdCode(tx.target_did)),
                      tx.timestamp), 13)

RECURSIVE MixTxs(_, _, _)
MixTxs(h, txs, i) == IF i > Len(txs) THEN h ELSE MixTxs(MixTx(h, txs[i]), txs, i + 1)

\* hexdigest(): the HashLen symbols of the number, most significant first
HexDigest(n) == [i \in 1..HashLen |-> (n \div Weight[i]) % DigestRadix]

\* json.dumps({...}, sort_keys=True) lists index, nonce, previous_hash, timestamp,
\* transactions in this order; the digest absorbs them in that order
compute_hash(index, transactions, timestamp, previous_hash, nonce) ==
    HexDigest(MixTxs(Mix(Mix(MixStr(Mix(Mix(Mix(HashSeed, index), nonce), Len(previous_hash)),
                                    previous_hash, 1),
                             timestamp),
                         Len(transactions)),
                     transactions, 1))

\* ---------------------------------------------------------------- Block
\* Block.__init__: nonce defaults to 0 and the hash is computed at once
Block(index, transactions, timestamp, previous_hash) ==
    [index |-> index, transactions |-> transactions, timestamp |-> timestamp,
     previous_hash |-> previous_hash, nonce |-> 0,
     hash |-> compute_hash(index, transactions, timestamp, previous_hash, 0)]

\* '0' * difficulty
Zeros(n) == [i \in 1..n |-> 0]

\* hash[:difficulty]
Prefix(s, n) == SubSeq(s, 1, IF n < Len(s) THEN n ELSE Len(s))

\* mutant: the loop tests one symbol too few
RECURSIVE mine_block_short(_, _)
mine_block_short(block, d) ==
    IF Prefix(block.hash, d - 1) # Zeros(d - 1)
    THEN LET n == block.nonce + 1 IN
         mine_block_short([block EXCEPT !.nonce = n,
                                        !.hash = compute_hash(block.index, block.transactions,
                                                              block.timestamp,
                                                              block.previous_hash, n)],
                          d)
    ELSE block

\* mutant: the loop body recomputes the hash before it increments the nonce
RECURSIVE mine_block_stale(_, _)
mine_block_stale(block, d) ==
    IF Prefix(block.hash, d) # Zeros(d)
    THEN mine_block_stale([block EXCEPT !.nonce = block.nonce + 1,
                                        !.hash = compute_hash(block.index, block.transactions,
                                                              block.timestamp,
                                                              block.previous_hash, block.nonce)],
                          d)
    ELSE block

\* mutant: the nonce is incremented once before the first test (do ... while)
RECURSIVE mine_block_dowhile_loop(_, _)
mine_block_dowhile_loop(block, d) ==
    IF Prefix(block.hash, d) # Zeros(d)
    THEN LET n == block.nonce + 1 IN
         mine_block_dowhile_loop(
             [block EXCEPT !.nonce = n,
                           !.hash = compute_hash(block.index, block.transactions,
                                                 block.timestamp, block.previous_hash, n)],
             d)
    ELSE block

mine_block_dowhile(block, d) ==
    mine_block_dowhile_loop(
        [block EXCEPT !.nonce = block.nonce + 1,
                      !.hash = compute_hash(block.index, block.transactions, block.timestamp,
                                            block.previous_hash, block.nonce + 1)],
        d)

RECURSIVE mine_block(_, _)
mine_block(block, d) ==
    IF Prefix(block.hash, d) # Zeros(d)
    THEN LET n == block.nonce + 1 IN
         mine_block([block EXCEPT !.nonce = n,
                                  !.hash = compute_hash(block.index, block.transactions,
                                                        block.timestamp, block.previous_hash, n)],
                    d)
    ELSE block

\* ----------------------------------------------------------- Blockchain
\* mutant: the genesis block is built with "1" in place of the sentinel "0"
create_genesis_block_sentinel(c, d, t) ==
    IF Len(c) = 0
    THEN Append(c, mine_block(Block(0, <<GenesisTx>>, t, <<1>>), d))
    ELSE c

\* mutant: the length test is dropped, every call seals another genesis block
create_genesis_block_again(c, d, t) ==
    Append(c, mine_block(Block(0, <<GenesisTx>>, t, <<0>>), d))

create_genesis_block(c, d, t) ==
    IF Len(c) = 0
    THEN Append(c, mine_block(Block(0, <<GenesisTx>>, t, <<0>>), d))
    ELSE c

\* mutant: chain[0] instead of chain[-1]
get_latest_block_first(c) == c[1]

get_latest_block(c) == c[Len(c)]

add_transaction(pending, transaction) == Append(pending, transaction)

\* mutant: the new block links to the head's previous_hash instead of its hash
mine_pending_transactions_prevlink(c, pending, d, t) ==
    IF pending = <<>>
    THEN [chain |-> c, pending_transactions |-> pending]
    ELSE LET block == mine_block(Block(Len(c), pending, t, get_latest_block(c).previous_hash), d)
         IN [chain |-> Append(c, block), pending_transactions |-> <<>>]

\* mutant: the early return is taken when the pool is NOT empty
mine_pending_transactions_guard(c, pending, d, t) ==
    IF pending # <<>>
    THEN [chain |-> c, pending_transactions |-> pending]
    ELSE LET block == mine_block(Block(Len(c), pending, t, get_latest_block(c).hash), d)
         IN [chain |-> Append(c, block), pending_transactions |-> <<>>]

\* mutant: the pool is not cleared after the block is appended
mine_pending_transactions_noclear(c, pending, d, t) ==
    IF pending = <<>>
    THEN [chain |-> c, pending_transactions |-> pending]
    ELSE LET block == mine_block(Block(Len(c), pending, t, get_latest_block(c).hash), d)
         IN [chain |-> Append(c, block), pending_transactions |-> pending]

\* mutant: the new block takes the head's index instead of len(chain)
mine_pending_transactions_index(c, pending, d, t) ==
    IF pending = <<>>
    THEN [chain |-> c, pending_transactions |-> pending]
    ELSE LET block == mine_block(Block(get_latest_block(c).index, pending, t,
                                       get_latest_block(c).hash), d)
         IN [chain |-> Append(c, block), pending_transactions |-> <<>>]

\* mutant: sealing a block also stamps the previous head with the current time
mine_pending_transactions_restamp(c, pending, d, t) ==
    IF pending = <<>>
    THEN [chain |-> c, pending_transactions |-> pending]
    ELSE LET block == mine_block(Block(Len(c), pending, t, get_latest_block(c).hash), d)
         IN [chain |-> Append([c EXCEPT ![Len(c)].timestamp = t], block),
             pending_transactions |-> <<>>]

\* mutant: no early return, a block is sealed whatever the pool holds
mine_pending_transactions_always(c, pending, d, t) ==
    LET block == mine_block(Block(Len(c), pending, t, get_latest_block(c).hash), d)
    IN [chain |-> Append(c, block), pending_transactions |-> <<>>]

\* returns the ledger's chain and pending pool after the call
mine_pending_transactions(c, pending, d, t) ==
    IF pending = <<>>
    THEN [chain |-> c, pending_transactions |-> pending]
    ELSE LET block == mine_block(Block(Len(c), pending, t, get_latest_block(c).hash), d)
         IN [chain |-> Append(c, block), pending_transactions |-> <<>>]

RECURSIVE valid_from(_, _)
valid_from(c, i) ==
    IF i > Len(c) THEN TRUE
    ELSE LET current_block == c[i]
             previous_block == c[i - 1]
         IN IF current_block.hash # compute_hash(current_block.index, current_block.transactions,
                                                 current_block.timestamp,
                                                 current_block.previous_hash, current_block.nonce)
            THEN FALSE
            ELSE IF current_block.previous_hash # previous_block.hash
                 THEN FALSE
                 ELSE valid_from(c, i + 1)

\* range(1, len(chain)): positions 2 .. Len(c) of the 1-based sequence
is_chain_valid(c) == valid_from(c, 2)

\* mutant: a matching revoke is passed over
RECURSIVE scan_block_norevoke(_, _, _, _, _)
scan_block_norevoke(txs, j, user_did, resource_did, t) ==
    IF j > Len(txs) THEN "next"
    ELSE LET transaction == txs[j] IN
         IF IsDict(transaction) /\ transaction.type = "ACCESS_GRANT"
               /\ transaction.owner_did = resource_did /\ transaction.target_did = user_did
               /\ t < transaction.expires_at
         THEN "true"
         ELSE scan_block_norevoke(txs, j + 1, user_did, resource_did, t)

\* mutant: the expiry test is <= instead of <
RECURSIVE scan_block_le(_, _, _, _, _)
scan_block_le(txs, j, user_did, resource_did, t) ==
    IF j > Len(txs) THEN "next"
    ELSE LET transaction == txs[j] IN
         IF IsDict(transaction) /\ transaction.type = "ACCESS_GRANT"
               /\ transaction.owner_did = resource_did /\ transaction.target_did = user_did
         THEN IF t <= transaction.expires_at
              THEN "true"
              ELSE scan_block_le(txs, j + 1, user_did, resource_did, t)
         ELSE IF IsDict(transaction) /\ transaction.type = "ACCESS_REVOKE"
                    /\ transaction.owner_did = resource_did /\ transaction.target_did = user_did
              THEN "false"
              ELSE scan_block_le(txs, j + 1, user_did, resource_did, t)

\* mutant: an expired matching grant ends the scan with False
RECURSIVE scan_block_expired(_, _, _, _, _)
scan_block_expired(txs, j, user_did, resource_did, t) ==
    IF j > Len(txs) THEN "next"
    ELSE LET transaction == txs[j] IN
         IF IsDict(transaction) /\ transaction.type = "ACCESS_GRANT"
               /\ transaction.owner_did = resource_did /\ transaction.target_did = user_did
         THEN IF t < transaction.expires_at THEN "true" ELSE "false"
         ELSE IF IsDict(transaction) /\ transaction.type = "ACCESS_REVOKE"
                    /\ transaction.owner_did = resource_did /\ transaction.target_did = user_did
              THEN "false"
              ELSE scan_block_expired(txs, j + 1, user_did, resource_did, t)

\* mutant: a grant or revoke of any owner is taken for one of the resource's owner
RECURSIVE scan_block_anyowner(_, _, _, _, _)
scan_block_anyowner(txs, j, user_did, resource_did, t) ==
    IF j > Len(txs) THEN "next"
    ELSE LET transaction == txs[j] IN
         IF IsDict(transaction) /\ transaction.type = "ACCESS_GRANT"
               /\ transaction.target_did = user_did
         THEN IF t < transaction.expires_at
              THEN "true"
              ELSE scan_block_anyowner(txs, j + 1, user_did, resource_did, t)
         ELSE IF IsDict(transaction) /\ transaction.type = "ACCESS_REVOKE"
                    /\ transaction.target_did = user_did
              THEN "false"
              ELSE scan_block_anyowner(txs, j + 1, user_did, resource_did, t)

\* mutant: the expiry comparison is inverted (a grant gives access once it has expired)
RECURSIVE scan_block_inverted(_, _, _, _, _)
scan_block_inverted(txs, j, user_did, resource_did, t) ==
    IF j > Len(txs) THEN "next"
    ELSE LET transaction == txs[j] IN
         IF IsDict(transaction) /\ transaction.type = "ACCESS_GRANT"
               /\ transaction.owner_did = resource_did /\ transaction.target_did = user_did
         THEN IF t > transaction.expires_at
              THEN "true"
              ELSE scan_block_inverted(txs, j + 1, user_did, resource_did, t)
         ELSE IF IsDict(transaction) /\ transaction.type = "ACCESS_REVOKE"
                    /\ transaction.owner_did = resource_did /\ transaction.target_did = user_did
              THEN "false"
              ELSE scan_block_inverted(txs, j + 1, user_did, resource_did, t)

\* mutant: the transactions of a block are visited last to first
RECURSIVE scan_block_newest(_, _, _, _, _)
scan_block_newest(txs, j, user_did, resource_did, t) ==
    IF j > Len(txs) THEN "next"
    ELSE LET transaction == txs[Len(txs) + 1 - j] IN
         IF IsDict(transaction) /\ transaction.type = "ACCESS_GRANT"
               /\ transaction.owner_did = resource_did /\ transaction.target_did = user_did
         THEN IF t < transaction.expires_at
              THEN "true"
              ELSE scan_block_newest(txs, j + 1, user_did, resource_did, t)
         ELSE IF IsDict(transaction) /\ transaction.type = "ACCESS_REVOKE"
                    /\ transaction.owner_did = resource_did /\ transaction.target_did = user_did
              THEN "false"
              ELSE scan_block_newest(txs, j + 1, user_did, resource_did, t)

\* the loop over one block's transactions: "true"/"false" when it returns, "next" when it ends
RECURSIVE scan_block(_, _, _, _, _)
scan_block(txs, j, user_did, resource_did, t) ==
    IF j > Len(txs) THEN "next"
    ELSE LET transaction == txs[j] IN
         IF IsDict(transaction) /\ transaction.type = "ACCESS_GRANT"
               /\ transaction.owner_did = resource_did /\ transaction.target_did = user_did
         THEN IF t < transaction.expires_at
              THEN "true"
              ELSE scan_block(txs, j + 1, user_did, resource_did, t)
         ELSE IF IsDict(transaction) /\ transaction.type = "ACCESS_REVOKE"
                    /\ transaction.owner_did = resource_did /\ transaction.target_did = user_did
              THEN "false"
              ELSE scan_block(txs, j + 1, user_did, resource_did, t)

\* mutant: the chain is scanned oldest block first (reversed() forgotten)
RECURSIVE verify_from_forward(_, _, _, _, _)
verify_from_forward(c, i, user_did, resource_did, t) ==
    IF i = 0 THEN FALSE
    ELSE LET r == scan_block(c[Len(c) - i + 1].transactions, 1, user_did, resource_did, t) IN
         IF r = "next" THEN verify_from_forward(c, i - 1, user_did, resource_did, t)
         ELSE r = "true"

\* the loop over reversed(chain), from position i down to the genesis block
RECURSIVE verify_from(_, _, _, _, _)
verify_from(c, i, user_did, resource_did, t) ==
    IF i = 0 THEN FALSE
    ELSE LET r == scan_block(c[i].transactions, 1, user_did, resource_did, t) IN
         IF r = "next" THEN verify_from(c, i - 1, user_did, resource_did, t)
         ELSE r = "true"

verify_access(c, user_did, resource_did, t) == verify_from(c, Len(c), user_did, resource_did, t)

RECURSIVE grants_in(_, _)
grants_in(txs, user_did) ==
    IF txs = <<>> THEN <<>>
    ELSE LET transaction == Head(txs) IN
         (IF IsDict(transaction) /\ transaction.type = "ACCESS_GRANT"
                /\ transaction.owner_did = user_did
          THEN <<transaction>> ELSE <<>>) \o grants_in(Tail(txs), user_did)

\* mutant: the grants of later blocks are put in front of those of earlier blocks
RECURSIVE grants_from_newest(_, _, _)
grants_from_newest(c, i, user_did) ==
    IF i > Len(c) THEN <<>>
    ELSE grants_from_newest(c, i + 1, user_did) \o grants_in(c[i].transactions, user_did)

RECURSIVE grants_from(_, _, _)
grants_from(c, i, user_did) ==
    IF i > Len(c) THEN <<>>
    ELSE grants_in(c[i].transactions, user_did) \o grants_from(c, i + 1, user_did)

get_user_access_grants(c, user_did) == grants_from(c, 1, user_did)

\* Blockchain.__init__ at clock reading t: the fields of a new ledger
Blockchain(t) ==
    [chain |-> create_genesis_block(<<>>, 2, t), difficulty |-> 2,
     pending_transactions |-> <<>>]

\* ------------------------------------------------------------ the ledger
\* a request thread between calls, after n completed calls
IdleCall(n) == [pc |-> "idle", n |-> n, transaction |-> <<>>, block |-> <<>>]

\* Blockchain.__init__, constructed at clock reading 0
Init ==
    /\ now = 0
    /\ difficulty = 2
    /\ pending_transactions = <<>>
    /\ chain = create_genesis_block(<<>>, 2, 0)
    /\ last = [op |-> "__init__", pre |-> 0, ret |-> FALSE]
    /\ calls = [t \in Threads |-> IdleCall(0)]
    /\ history = [returned |-> {}, overlapped |-> FALSE]
    /\ demo_blockchain = Blockchain(0)

\* the wall clock moves on between calls
Tick(t) ==
    /\ t > now
    /\ now' = t
    /\ UNCHANGED <<chain, pending_transactions, difficulty, last, calls, history, demo_blockchain>>

GrantAccess(owner_did, target_did, duration) ==
    /\ Len(chain) < MaxChain
    /\ \E transaction \in {GrantTx(owner_did, target_did, duration, now)} :
       \E m \in {mine_pending_transactions(chain,
                                           add_transaction(pending_transactions, transaction),
                                           difficulty, now)} :
          /\ chain' = m.chain
          /\ pending_transactions' = m.pending_transactions
          /\ last' = [op |-> "grant_access", pre |-> Len(chain), ret |-> transaction]
    /\ UNCHANGED <<difficulty, now, calls, history, demo_blockchain>>

RevokeAccess(owner_did, target_did) ==
    /\ Len(chain) < MaxChain
    /\ \E transaction \in {RevokeTx(owner_did, target_did, now)} :
       \E m \in {mine_pending_transactions(chain,
                                           add_transaction(pending_transactions, transaction),
                                           difficulty, now)} :
          /\ chain' = m.chain
          /\ pending_transactions' = m.pending_transactions
          /\ last' = [op |-> "revoke_access", pre |-> Len(chain), ret |-> transaction]
    /\ UNCHANGED <<difficulty, now, calls, history, demo_blockchain>>

\* mutant: self.chain.reverse() in place of reversed(self.chain)
VerifyAccess_inplace(user_did, resource_did) ==
    /\ last' = [op |-> "verify_access", pre |-> Len(chain),
                ret |-> <<user_did, resource_did,
                          verify_access(chain, user_did, resource_did, now)>>]
    /\ chain' = [i \in 1..Len(chain) |-> chain[Len(chain) + 1 - i]]
    /\ UNCHANGED <<pending_transactions, difficulty, now, calls, history, demo_blockchain>>

VerifyAccess(user_did, resource_did) ==
    /\ last' = [op |-> "verify_access", pre |-> Len(chain),
                ret |-> <<user_did, resource_did,
                          verify_access(chain, user_did, resource_did, now)>>]
    /\ UNCHANGED <<chain, pending_transactions, difficulty, now, calls, history, demo_blockchain>>

IsChainValid ==
    /\ last' = [op |-> "is_chain_valid", pre |-> Len(chain), ret |-> is_chain_valid(chain)]
    /\ UNCHANGED <<chain, pending_transactions, difficulty, now, calls, history, demo_blockchain>>

Next ==
    \/ \E t \in ClockValues : Tick(t)
    \/ \E p \in Pairs, d \in Durations : GrantAccess(p[1], p[2], d)
    \/ \E p \in Pairs : RevokeAccess(p[1], p[2])
    \/ \E p \in Pairs : VerifyAccess(p[2], p[1])
    \/ IsChainValid

Spec == Init /\ [][Next]_vars

\* --------------------------------------------- the pool filled by hand (batches)
\* transactions handed to add_transaction so far and not yet dropped
RECURSIVE TxCount(_, _)
TxCount(c, i) == IF i > Len(c) THEN 0 ELSE Len(c[i].transactions) + TxCount(c, i + 1)

BatchTxs(t) ==
    {GrantTx(p[1], p[2], d, t) : p \in Pairs, d \in Durations}
        \cup {RevokeTx(p[1], p[2], t) : p \in Pairs}

AddTransaction(transaction) ==
    /\ TxCount(chain, 2) + Len(pending_transactions) < BatchMaxTx
    /\ pending_transactions' = add_transaction(pending_transactions, transaction)
    /\ last' = [op |-> "add_transaction", pre |-> Len(chain), ret |-> transaction]
    /\ UNCHANGED <<chain, difficulty, now, calls, history, demo_blockchain>>

MinePendingTransactions ==
    /\ \E m \in {mine_pending_transactions(chain, pending_transactions, difficulty, now)} :
          /\ chain' = m.chain
          /\ pending_transactions' = m.pending_transactions
    /\ last' = [op |-> "mine_pending_transactions", pre |-> Len(chain), ret |-> FALSE]
    /\ UNCHANGED <<difficulty, now, calls, history, demo_blockchain>>

NextBatch ==
    \/ \E t \in ClockValues : Tick(t)
    \/ \E tx \in BatchTxs(now) : AddTransaction(tx)
    \/ MinePendingTransactions
    \/ \E p \in Pairs : VerifyAccess(p[2], p[1])

SpecBatch == Init /\ [][NextBatch]_vars


\* ------------------------------- every public method of the ledger, any duration
GetUserAccessGrants(user_did) ==
    /\ last' = [op |-> "get_user_access_grants", pre |-> Len(chain),
                ret |-> <<user_did, get_user_access_grants(chain, user_did)>>]
    /\ UNCHANGED <<chain, pending_transactions, difficulty, now, calls, history, demo_blockchain>>

\* create_genesis_block() called on the constructed ledger (the start-up code of app.py
\* calls it when the chain is empty; the method itself tests the length again)
CreateGenesisBlock ==
    /\ chain' = create_genesis_block(chain, difficulty, now)
    /\ last' = [op |-> "create_genesis_block", pre |-> Len(chain), ret |-> FALSE]
    /\ UNCHANGED <<pending_transactions, difficulty, now, calls, history, demo_blockchain>>

NextFull ==
    \/ \E t \in ClockValues : Tick(t)
    \/ \E p \in Pairs, d \in FullDurations :
          Len(chain) < FullMaxChain /\ GrantAccess(p[1], p[2], d)
    \/ \E p \in Pairs : Len(chain) < FullMaxChain /\ RevokeAccess(p[1], p[2])
    \/ \E u \in Ids, r \in Ids : VerifyAccess(u, r)
    \/ \E u \in Ids : GetUserAccessGrants(u)
    \/ IsChainValid
    \/ CreateGenesisBlock

SpecFull == Init /\ [][NextFull]_vars

\* ------------------------------------ the sealer under every difficulty
\* a ledger whose difficulty attribute was set before its blocks are sealed
Difficulties == {0, 1, 2}

InitSealer ==
    /\ now = 0
    /\ difficulty \in Difficulties
    /\ pending_transactions = <<>>
    /\ chain = create_genesis_block(<<>>, difficulty, 0)
    /\ last = [op |-> "__init__", pre |-> 0, ret |-> FALSE]
    /\ calls = [t \in Threads |-> IdleCall(0)]
    /\ history = [returned |-> {}, overlapped |-> FALSE]
    /\ demo_blockchain = Blockchain(0)

NextSealer ==
    \/ \E t \in ClockValues : Tick(t)
    \/ \E p \in Pairs, d \in Durations :
          Len(chain) < SealMaxChain /\ GrantAccess(p[1], p[2], d)
    \/ \E p \in Pairs : Len(chain) < SealMaxChain /\ RevokeAccess(p[1], p[2])

SpecSealer == InitSealer /\ [][NextSealer]_vars

\* ------------------------------------------------ three identities
Ids3 == Ids \cup {"did:vpn:C"}
Pairs3 == {p \in Ids3 \X Ids3 : p[1] # p[2]}

NextIso ==
    \/ \E t \in ClockValues : Tick(t)
    \/ \E p \in Pairs3 : Len(chain) < IsoMaxChain /\ GrantAccess(p[1], p[2], 60)
    \/ \E p \in Pairs3 : Len(chain) < IsoMaxChain /\ RevokeAccess(p[1], p[2])
    \/ \E p \in Pairs : VerifyAccess(p[2], p[1])

SpecIso == Init /\ [][NextIso]_vars

\* --------------------------------------------- the web application (app.py)
\* text received in a request is kept as its whitespace-separated words: <<>> is an
\* empty or blank text, <<"did:", "vpn:B">> a text with white space inside
RECURSIVE JoinWords(_)
JoinWords(words) == IF words = <<>> THEN "" ELSE Head(words) \o JoinWords(Tail(words))

\* str.startswith
StartsWith(text, prefix) ==
    Len(text) >= Len(prefix) /\ SubSeq(text, 1, Len(prefix)) = prefix

DigitValue(ch) ==
    CASE ch = "0" -> 0 [] ch = "1" -> 1 [] ch = "2" -> 2 [] ch = "3" -> 3 [] ch = "4" -> 4
      [] ch = "5" -> 5 [] ch = "6" -> 6 [] ch = "7" -> 7 [] ch = "8" -> 8 [] ch = "9" -> 9
      [] OTHER -> -1

RECURSIVE DecimalValue(_, _, _)
DecimalValue(text, i, acc) ==
    IF i > Len(text) THEN acc
    ELSE DecimalValue(text, i + 1, acc * 10 + DigitValue(SubSeq(text, i, i)))

\* int(duration): an int is kept, a float is truncated toward zero, a text of decimal
\* digits is parsed, any other text raises ValueError and None raises TypeError
PyInt(v) ==
    CASE v.kind = "int" -> [ok |-> TRUE, value |-> v.n]
      [] v.kind = "float" ->
           [ok |-> TRUE,
            value |-> IF v.tenths >= 0 THEN v.tenths \div 10 ELSE -((-v.tenths) \div 10)]
      [] v.kind = "str" ->
           IF Len(v.text) > 0
                /\ \A i \in 1..Len(v.text) : DigitValue(SubSeq(v.text, i, i)) >= 0
           THEN [ok |-> TRUE, value |-> DecimalValue(v.text, 1, 0)]
           ELSE [ok |-> FALSE, value |-> 0]
      [] OTHER -> [ok |-> FALSE, value |-> 0]

\* the users table: the DIDs of the registered users
Users == Ids

\* session of the request: no user logged in, or the DID of the user logged in
Sessions == {"", "did:vpn:A", "did:vpn:B"}

TargetInputs ==
    {<<>>, <<"did:vpn:B">>, <<"did:", "vpn:B">>, <<"vpn:B">>, <<"did:vpn:Z">>}

\* the duration of the request body; "missing" takes the default 3600
DurationInputs ==
    {[kind |-> "missing"], [kind |-> "int", n |-> 59], [kind |-> "int", n |-> 60],
     [kind |-> "float", tenths |-> 605], [kind |-> "str", text |-> "60"],
     [kind |-> "str", text |-> "abc"], [kind |-> "null"]}

\* the sqlite calls of the handler: all succeed, the users lookup raises, or a write of
\* the access log / the notifications raises
DbOutcomes == {"ok", "lookup_error", "write_error"}

\* number of fields in which a request departs from the request a logged-in user sends
\* from the form: target "did:vpn:B", duration 60, every sqlite call succeeding
Departures(request) ==
    (IF request.session = "" THEN 1 ELSE 0)
    + (IF request.target_did # <<"did:vpn:B">> THEN 1 ELSE 0)
    + (IF request.duration # [kind |-> "int", n |-> 60] THEN 1 ELSE 0)
    + (IF request.db # "ok" THEN 1 ELSE 0)

Requests ==
    {request \in [session : Sessions, target_did : TargetInputs,
                  duration : DurationInputs, db : DbOutcomes] : Departures(request) <= 1}

Response(status, c, pending, transaction) ==
    [status |-> status, chain |-> c, pending_transactions |-> pending,
     transaction |-> transaction]

\* the /api/grant_access handler on the ledger (c, pending, d) at clock reading t
api_grant_access(c, pending, d, t, request) ==
    IF request.session = "" THEN Response(401, c, pending, <<>>)
    ELSE IF request.target_did = <<>> THEN Response(400, c, pending, <<>>)
    ELSE LET target_did == JoinWords(request.target_did)
             duration == IF request.duration.kind = "missing"
                         THEN [ok |-> TRUE, value |-> 3600]
                         ELSE PyInt(request.duration)
         IN IF ~StartsWith(target_did, "did:vpn:") THEN Response(400, c, pending, <<>>)
            ELSE IF ~duration.ok THEN Response(400, c, pending, <<>>)
            ELSE IF duration.value < 60 THEN Response(400, c, pending, <<>>)
            ELSE IF request.db = "lookup_error" THEN Response(500, c, pending, <<>>)
            ELSE IF target_did \notin Users THEN Response(404, c, pending, <<>>)
            ELSE LET transaction == GrantTx(request.session, target_did, duration.value, t)
                     m == mine_pending_transactions(c, add_transaction(pending, transaction),
                                                    d, t)
                 IN IF request.db = "write_error"
                    THEN Response(500, m.chain, m.pending_transactions, <<>>)
                    ELSE Response(200, m.chain, m.pending_transactions, transaction)

ApiGrantAccess(request) ==
    /\ Len(chain) < AppMaxChain
    /\ \E r \in {api_grant_access(chain, pending_transactions, difficulty, now, request)} :
          /\ chain' = r.chain
          /\ pending_transactions' = r.pending_transactions
          /\ last' = [op |-> "api_grant_access", pre |-> Len(chain),
                      ret |-> [status |-> r.status, request |-> request,
                               transaction |-> r.transaction]]
    /\ UNCHANGED <<difficulty, now, calls, history, demo_blockchain>>

\* mutant: the controller reads the ledger of the web application
DemoChain_shared == chain

\* self.blockchain.chain of the DemoController
DemoChain == demo_blockchain.chain

\* the blockchain_info of create_demo_scenario (the /demo page)
create_demo_scenario ==
    [total_blocks |-> Len(DemoChain),
     total_transactions |-> TxCount(DemoChain, 1),
     chain_valid |-> is_chain_valid(DemoChain)]

CreateDemoScenario ==
    /\ last' = [op |-> "create_demo_scenario", pre |-> Len(chain),
                ret |-> create_demo_scenario]
    /\ UNCHANGED <<chain, pending_transactions, difficulty, now, calls, history,
                   demo_blockchain>>

NextApp ==
    \/ \E t \in ClockValues : Tick(t)
    \/ \E request \in Requests : ApiGrantAccess(request)
    \/ CreateDemoScenario

SpecApp == Init /\ [][NextApp]_vars

\* ------------------------- two request threads, no lock (the calls are not atomic)
\* the session DID of a thread is the owner; the other user is the target
SessionDid(t) == IF t = 1 THEN "did:vpn:A" ELSE "did:vpn:B"
TargetDid(t) == IF t = 1 THEN "did:vpn:B" ELSE "did:vpn:A"

\* the call returns its transaction to the caller
Return(t) ==
    /\ calls' = [calls EXCEPT ![t] = IdleCall(calls[t].n + 1)]
    /\ history' = [history EXCEPT !.returned = @ \cup {calls[t].transaction}]

\* calls begun so far: the completed ones and the ones in flight
RECURSIVE Begun(_)
Begun(T) ==
    IF T = {} THEN 0
    ELSE LET t == CHOOSE x \in T : TRUE IN
         calls[t].n + (IF calls[t].pc = "idle" THEN 0 ELSE 1) + Begun(T \ {t})

\* grant_access / revoke_access up to add_transaction: the dict is built and appended
BeginCall(t, transaction) ==
    /\ calls[t].pc = "idle"
    /\ Begun(Threads) < ConcMaxCalls
    /\ pending_transactions' = add_transaction(pending_transactions, transaction)
    /\ calls' = [calls EXCEPT ![t] = [pc |-> "read", n |-> calls[t].n,
                                      transaction |-> transaction, block |-> <<>>]]
    /\ history' = [history EXCEPT
                     !.overlapped = @ \/ \E o \in Threads \ {t} : calls[o].pc # "idle"]
    /\ UNCHANGED <<chain, difficulty, now, last, demo_blockchain>>

\* mine_pending_transactions, lines 52-60: the early return, or the candidate block
\* built from the pool and the chain head as they are now
ReadPool(t) ==
    /\ calls[t].pc = "read"
    /\ IF pending_transactions = <<>>
       THEN Return(t)
       ELSE /\ calls' = [calls EXCEPT
                           ![t].pc = "mine",
                           ![t].block = Block(Len(chain), pending_transactions, now,
                                              get_latest_block(chain).hash)]
            /\ UNCHANGED history
    /\ UNCHANGED <<chain, pending_transactions, difficulty, now, last, demo_blockchain>>

\* line 61: the nonce search on the candidate
MineCandidate(t) ==
    /\ calls[t].pc = "mine"
    /\ calls' = [calls EXCEPT ![t].pc = "append",
                              ![t].block = mine_block(calls[t].block, difficulty)]
    /\ UNCHANGED <<chain, pending_transactions, difficulty, now, last, history, demo_blockchain>>

\* line 63
AppendBlock(t) ==
    /\ calls[t].pc = "append"
    /\ chain' = Append(chain, calls[t].block)
    /\ calls' = [calls EXCEPT ![t].pc = "clear"]
    /\ UNCHANGED <<pending_transactions, difficulty, now, last, history, demo_blockchain>>

\* line 64, then the return of the transaction
ClearPool(t) ==
    /\ calls[t].pc = "clear"
    /\ pending_transactions' = <<>>
    /\ Return(t)
    /\ UNCHANGED <<chain, difficulty, now, last, demo_blockchain>>

NextConc ==
    \/ \E t \in ClockValues : Tick(t)
    \/ \E t \in Threads : BeginCall(t, GrantTx(SessionDid(t), TargetDid(t), 60, now))
    \/ \E t \in Threads : BeginCall(t, RevokeTx(SessionDid(t), TargetDid(t), now))
    \/ \E t \in Threads : ReadPool(t)
    \/ \E t \in Threads : MineCandidate(t)
    \/ \E t \in Threads : AppendBlock(t)
    \/ \E t \in Threads : ClearPool(t)

SpecConc == Init /\ [][NextConc]_vars

\* ------------------- is_chain_valid as a function of the chain it is handed
\* chains of at most n blocks sealed by grant_access / revoke_access at reading 0
RECURSIVE SealedChains(_)
SealedChains(n) ==
    IF n <= 1 THEN {create_genesis_block(<<>>, 2, 0)}
    ELSE LET shorter == SealedChains(n - 1)
             txs == {GrantTx(p[1], p[2], 60, 0) : p \in Pairs}
                       \cup {RevokeTx(p[1], p[2], 0) : p \in Pairs}
         IN shorter \cup {mine_pending_transactions(c, <<tx>>, 2, 0).chain :
                             c \in shorter, tx \in txs}

CorruptionKinds == {"hash", "timestamp", "index", "reindex"}

\* block i of c edited after sealing: its stored hash overwritten, its timestamp or
\* its index edited under the old hash, or its index edited and the block sealed again
Corrupt(c, i, kind) ==
    CASE kind = "hash" ->
           [c EXCEPT ![i].hash = [@ EXCEPT ![HashLen] = (@ + 1) % DigestRadix]]
      [] kind = "timestamp" -> [c EXCEPT ![i].timestamp = @ + 1]
      [] kind = "index" -> [c EXCEPT ![i].index = @ + 1]
      [] OTHER ->
           [c EXCEPT ![i] = mine_block(Block(c[i].index + 1, c[i].transactions,
                                             c[i].timestamp, c[i].previous_hash), 2)]

ValidatorInputs ==
    LET sealed == SealedChains(ValidatorMaxChain) IN
      sealed \cup {Corrupt(c, i, kind) : <<c, i>> \in {ci \in sealed \X (1..ValidatorMaxChain) :
                                                         ci[2] <= Len(ci[1])},
                                         kind \in CorruptionKinds}

InitValidator ==
    /\ now = 0
    /\ difficulty = 2
    /\ pending_transactions = <<>>
    /\ chain \in ValidatorInputs
    /\ last = [op |-> "__init__", pre |-> 0, ret |-> FALSE]
    /\ calls = [t \in Threads |-> IdleCall(0)]
    /\ history = [returned |-> {}, overlapped |-> FALSE]
    /\ demo_blockchain = Blockchain(0)

NextValidator == IsChainValid

SpecValidator == InitValidator /\ [][NextValidator]_vars

\* ================================================================ properties
IsGrantFor(tx, owner_did, target_did) ==
    IsDict(tx) /\ tx.type = "ACCESS_GRANT" /\ tx.owner_did = owner_did
        /\ tx.target_did = target_did

IsRevokeFor(tx, owner_did, target_did) ==
    IsDict(tx) /\ tx.type = "ACCESS_REVOKE" /\ tx.owner_did = owner_did
        /\ tx.target_did = target_did

\* the single transaction of block i (grant_access / revoke_access seal one per block)
TxOf(i) == chain[i].transactions[1]

\* blocks whose single transaction is a grant or a revoke from owner_did to target_did
PairBlocks(owner_did, target_did) ==
    {i \in 2..Len(chain) : IsGrantFor(TxOf(i), owner_did, target_did)
                             \/ IsRevokeFor(TxOf(i), owner_did, target_did)}

\* C1: after any sequence of grant_access / revoke_access calls on a fresh ledger,
\* is_chain_valid() returns True.
C1_ChainValid ==
    /\ is_chain_valid(chain)
    /\ last.op = "is_chain_valid" => last.ret = TRUE

C1_Witness ==
    /\ last.op = "is_chain_valid" /\ last.ret = TRUE
    /\ Len(chain) = 4
    /\ \E i, j \in 2..Len(chain) : TxOf(i).type = "ACCESS_GRANT" /\ TxOf(j).type = "ACCESS_REVOKE"
    /\ chain[2].hash # chain[1].hash

\* C2: revoke precedence.  A grant (d > 0) from A to B directly followed by a revoke
\* from A to B makes verify_access(B, A) False although the grant has not expired; a
\* further grant (d' > 0) makes it True again while that grant has not expired.
C2_RevokePrecedence ==
    \A p \in Pairs :
      LET n == Len(chain) IN
        /\ (/\ n >= 3
            /\ IsGrantFor(TxOf(n - 1), p[1], p[2]) /\ TxOf(n - 1).duration > 0
            /\ now < TxOf(n - 1).expires_at
            /\ IsRevokeFor(TxOf(n), p[1], p[2]))
           => ~verify_access(chain, p[2], p[1], now)
        /\ (/\ n >= 4
            /\ IsGrantFor(TxOf(n - 2), p[1], p[2]) /\ TxOf(n - 2).duration > 0
            /\ IsRevokeFor(TxOf(n - 1), p[1], p[2])
            /\ IsGrantFor(TxOf(n), p[1], p[2]) /\ TxOf(n).duration > 0
            /\ now < TxOf(n).expires_at)
           => verify_access(chain, p[2], p[1], now)

C2_Witness ==
    /\ Len(chain) = 4
    /\ IsGrantFor(TxOf(2), "did:vpn:A", "did:vpn:B") /\ TxOf(2).duration > 0
    /\ IsRevokeFor(TxOf(3), "did:vpn:A", "did:vpn:B")
    /\ TxOf(3).timestamp < TxOf(2).expires_at
    /\ IsGrantFor(TxOf(4), "did:vpn:A", "did:vpn:B") /\ TxOf(4).duration > 0
    /\ now < TxOf(2).expires_at /\ now < TxOf(4).expires_at
    /\ last.op = "verify_access" /\ last.ret = <<"did:vpn:B", "did:vpn:A", TRUE>>

\* clock readings at or after the current one at which a grant g is probed
ProbeTimes(g) ==
    {t \in {now, g.timestamp + 59, g.timestamp + 61,
            g.expires_at - 1, g.expires_at, g.expires_at + 1} : t >= now}

\* C3: expiry boundary.  When a grant from A to B is the only transaction of the pair,
\* expires_at is its issue time plus its duration and verify_access(B, A) is True at
\* every reading before expires_at and False at every reading from expires_at on.
C3_ExpiryBoundary ==
    \A p \in Pairs :
      LET S == PairBlocks(p[1], p[2]) IN
        (Cardinality(S) = 1 /\ \A i \in S : IsGrantFor(TxOf(i), p[1], p[2]))
        => \A i \in S :
             LET g == TxOf(i) IN
               /\ g.expires_at = g.timestamp + g.duration
               /\ \A t \in ProbeTimes(g) :
                    verify_access(chain, p[2], p[1], t) = (t < g.expires_at)

C3_Witness ==
    /\ PairBlocks("did:vpn:A", "did:vpn:B") = {2}
    /\ IsGrantFor(TxOf(2), "did:vpn:A", "did:vpn:B") /\ TxOf(2).duration = 60
    /\ now = TxOf(2).timestamp + 61
    /\ verify_access(chain, "did:vpn:B", "did:vpn:A", TxOf(2).timestamp)
    /\ verify_access(chain, "did:vpn:B", "did:vpn:A", TxOf(2).timestamp + 59)
    /\ last.op = "verify_access" /\ last.ret = <<"did:vpn:B", "did:vpn:A", FALSE>>

\* the transactions in the order the scan visits them: newest block first, stored
\* order inside a block
RECURSIVE ScanOrder(_, _)
ScanOrder(c, i) == IF i = 0 THEN <<>> ELSE c[i].transactions \o ScanOrder(c, i - 1)

Decides(tx, user_did, resource_did, t) ==
    \/ IsGrantFor(tx, resource_did, user_did) /\ tx.expires_at > t
    \/ IsRevokeFor(tx, resource_did, user_did)

FirstDecisive(c, user_did, resource_did, t) ==
    LET s == ScanOrder(c, Len(c))
        D == {k \in 1..Len(s) : Decides(s[k], user_did, resource_did, t)}
    IN /\ D # {}
       /\ \E k \in D : (\A m \in D : k <= m) /\ s[k].type = "ACCESS_GRANT"

\* C4: verify_access(user, resource) is the outcome of the scan, newest block first and
\* stored order inside a block, that stops at the first unexpired matching grant (True)
\* or matching revoke (False), skips expired grants and gives False when nothing decides.
C4_VerifyIsFirstDecisive ==
    \A u \in Ids, r \in Ids :
        verify_access(chain, u, r, now) = FirstDecisive(chain, u, r, now)

\* one block holding an expired grant and then an unexpired one for the same pair
C4_Witness ==
    /\ Len(chain) = 2
    /\ Len(chain[2].transactions) = 2
    /\ IsGrantFor(chain[2].transactions[1], "did:vpn:A", "did:vpn:B")
    /\ chain[2].transactions[1].expires_at <= now
    /\ IsGrantFor(chain[2].transactions[2], "did:vpn:A", "did:vpn:B")
    /\ chain[2].transactions[2].expires_at > now
    /\ last.op = "verify_access" /\ last.ret = <<"did:vpn:B", "did:vpn:A", TRUE>>
    /\ ~verify_access(chain, "did:vpn:A", "did:vpn:B", now)

\* the newest block of a non-empty set of block positions
Newest(S) == CHOOSE i \in S : \A j \in S : j <= i

\* C5 as stated: verify_access(target, owner) is True exactly when the most recently
\* sealed grant or revoke of the pair is a grant whose expires_at is in the future.
C5_MostRecentWins ==
    \A p \in Pairs :
      LET S == PairBlocks(p[1], p[2]) IN
        verify_access(chain, p[2], p[1], now)
          = (/\ S # {}
             /\ IsGrantFor(TxOf(Newest(S)), p[1], p[2])
             /\ TxOf(Newest(S)).expires_at > now)

\* C5 amended: verify_access(target, owner) is True exactly when the pair has a grant
\* whose expires_at is in the future and no revoke of the pair was sealed after it;
\* expired grants are passed over, so an older unexpired grant still gives access.
C5_LiveGrantNotRevoked ==
    \A p \in Pairs :
      LET S == PairBlocks(p[1], p[2]) IN
        verify_access(chain, p[2], p[1], now)
          = (\E i \in S :
               /\ IsGrantFor(TxOf(i), p[1], p[2]) /\ TxOf(i).expires_at > now
               /\ \A j \in S : j > i => ~IsRevokeFor(TxOf(j), p[1], p[2]))

C5_Witness ==
    /\ Len(chain) = 3
    /\ IsGrantFor(TxOf(2), "did:vpn:A", "did:vpn:B") /\ TxOf(2).expires_at > now
    /\ IsGrantFor(TxOf(3), "did:vpn:A", "did:vpn:B") /\ TxOf(3).expires_at <= now
    /\ last.op = "verify_access" /\ last.ret = <<"did:vpn:B", "did:vpn:A", TRUE>>

\* C6: every block of the chain, the genesis block included, has a digest whose first
\* `difficulty` symbols are the zero symbol.
C6_ProofOfWork ==
    \A i \in 1..Len(chain) :
        /\ Len(chain[i].hash) >= difficulty
        /\ \A k \in 1..difficulty : chain[i].hash[k] = 0

C6_Witness ==
    /\ Len(chain) = 4
    /\ \A i \in 2..4 : chain[i].nonce > 0
    /\ last.op \in {"grant_access", "revoke_access"}

\* C7: for every i >= 1, chain[i].previous_hash equals chain[i-1].hash.
C7_Linkage ==
    \A i \in 2..Len(chain) : chain[i].previous_hash = chain[i - 1].hash

C7_Witness ==
    /\ Len(chain) = 4
    /\ chain[4].previous_hash = chain[3].hash
    /\ chain[3].hash # chain[2].hash /\ chain[2].hash # chain[1].hash
    /\ chain[1].previous_hash = <<0>>

\* C8: at every moment after a block was sealed, its stored hash is compute_hash over
\* its stored index, transactions, timestamp, previous_hash and nonce.
C8_DigestOfStoredFields ==
    \A i \in 1..Len(chain) :
        chain[i].hash = compute_hash(chain[i].index, chain[i].transactions,
                                     chain[i].timestamp, chain[i].previous_hash,
                                     chain[i].nonce)

\* a block sealed by a real nonce search, looked at after later calls and a later clock
C8_Witness ==
    /\ Len(chain) = 4
    /\ chain[2].nonce > 0
    /\ now > chain[2].timestamp
    /\ last.op = "is_chain_valid"

\* C9: a grant_access or revoke_access call makes the chain one block longer; the new
\* block is the head and holds exactly the transaction the call returns.
C9_OneBlockPerCall ==
    last.op \in {"grant_access", "revoke_access"}
    => /\ Len(chain) = last.pre + 1
       /\ chain[Len(chain)].transactions = <<last.ret>>
       /\ chain[Len(chain)].index = last.pre

\* a revoke with no earlier grant of the pair
C9_Witness ==
    /\ last.op = "revoke_access"
    /\ Len(chain) = 3
    /\ IsRevokeFor(TxOf(3), "did:vpn:A", "did:vpn:B")
    /\ ~IsGrantFor(TxOf(2), "did:vpn:A", "did:vpn:B")
    /\ last.ret = TxOf(3)

\* C10: the pending pool is empty after construction and after every completed
\* grant_access or revoke_access call.
C10_PendingEmpty ==
    pending_transactions = <<>>

C10_Witness ==
    /\ last.op \in {"grant_access", "revoke_access"}
    /\ Len(chain) = 4
    /\ pending_transactions = <<>>

\* C11 as stated: grant_access with a negative duration seals nothing, so no grant with
\* a negative duration is stored in the chain and a call with one leaves the chain as
\* it was.
C11_NegativeDurationRejected ==
    /\ \A i \in 1..Len(chain) :
         \A k \in 1..Len(chain[i].transactions) :
            LET tx == chain[i].transactions[k] IN
              (IsDict(tx) /\ tx.type = "ACCESS_GRANT") => tx.duration >= 0
    /\ (last.op = "grant_access" /\ last.ret.duration < 0) => Len(chain) = last.pre

\* a transaction returned to its caller is in no block of the chain
LostTransaction ==
    \E tx \in history.returned :
       \A i \in 1..Len(chain) :
          \A k \in 1..Len(chain[i].transactions) : chain[i].transactions[k] # tx

\* two neighbouring blocks that are not linked
BrokenLink == \E i \in 2..Len(chain) : chain[i].previous_hash # chain[i - 1].hash

\* C12: with two unsynchronised writers a returned transaction can be missing from the
\* chain, or a block can fail to link to its predecessor; either happens only when a
\* call began while another was in flight.
C12_AnomalyOnlyWhenInterleaved ==
    (LostTransaction \/ BrokenLink) => history.overlapped

\* both calls returned and one of the two transactions was never sealed
C12_Witness ==
    /\ \A t \in Threads : calls[t].pc = "idle" /\ calls[t].n = 1
    /\ LostTransaction
    /\ history.overlapped

\* both calls returned and two blocks were built on the same head
C12_WitnessBrokenLink ==
    /\ \A t \in Threads : calls[t].pc = "idle" /\ calls[t].n = 1
    /\ BrokenLink
    /\ Len(chain) = 3 /\ chain[3].previous_hash = chain[1].hash

\* the stored hash of block i is not compute_hash over its stored fields
StaleDigest(i) ==
    chain[i].hash # compute_hash(chain[i].index, chain[i].transactions, chain[i].timestamp,
                                 chain[i].previous_hash, chain[i].nonce)

\* C13 as stated: is_chain_valid() returns False whenever some block, the genesis block
\* included, has a stored hash that differs from compute_hash over its stored fields.
C13_EveryDigestChecked ==
    (last.op = "is_chain_valid" /\ \E i \in 1..Len(chain) : StaleDigest(i))
    => last.ret = FALSE

\* C14 as stated: is_chain_valid() returns False whenever some chain[i].index differs
\* from i while every digest and every link is consistent.
C14_IndicesChecked ==
    (/\ last.op = "is_chain_valid"
     /\ \E i \in 1..Len(chain) : chain[i].index # i - 1
     /\ \A i \in 1..Len(chain) : ~StaleDigest(i)
     /\ ~BrokenLink)
    => last.ret = FALSE

\* C15: in every state reached by sequential grant_access / revoke_access calls, the
\* block stored at position i of the chain carries index i (positions counted from 0).
C15_IndexIsPosition ==
    \A i \in 1..Len(chain) : chain[i].index = i - 1

\* a full chain built by grants and revokes, the last block sealed by a revoke
C15_Witness ==
    /\ Len(chain) = MaxChain
    /\ last.op = "revoke_access"
    /\ chain[MaxChain].index = MaxChain - 1
    /\ \E i \in 2..(MaxChain - 1) : IsDict(TxOf(i)) /\ TxOf(i).type = "ACCESS_GRANT"

\* C16: in every reachable state the chain is non-empty and its first block has index 0
\* and the sentinel "0" as previous_hash, however many blocks were sealed after it.
C16_GenesisFixed ==
    /\ Len(chain) >= 1
    /\ chain[1].index = 0
    /\ chain[1].previous_hash = <<0>>

\* three blocks sealed after the genesis block, at a later clock reading
C16_Witness ==
    /\ Len(chain) = 4
    /\ now > chain[1].timestamp
    /\ last.op = "grant_access"
    /\ chain[1].transactions = <<GenesisTx>>
    /\ chain[1].previous_hash = <<0>>

\* C17: every step of the ledger leaves each block already in the chain where it was
\* and as it was (index, transactions, timestamp, previous_hash, nonce, hash): the
\* chain before the step is a prefix of the chain after it.
C17_AppendOnly ==
    [][/\ Len(chain') >= Len(chain)
       /\ \A i \in 1..Len(chain) : chain'[i] = chain[i]]_vars

\* a block sealed on top of two others at a clock reading later than the head's
C17_Witness ==
    /\ Len(chain) = 3
    /\ last.op \in {"grant_access", "revoke_access"}
    /\ last.pre = 2
    /\ chain[3].timestamp > chain[2].timestamp
    /\ chain[2].timestamp > chain[1].timestamp

Queries == {"verify_access", "get_user_access_grants", "is_chain_valid"}

\* C18: a step taken by verify_access, get_user_access_grants or is_chain_valid, for
\* any ledger state and any argument, leaves the chain, the pending pool and the
\* difficulty as they were.
C18_QueriesFrame ==
    [][last'.op \in Queries => UNCHANGED <<chain, pending_transactions, difficulty>>]_vars

\* a query answered on a ledger of three blocks
C18_Witness ==
    /\ last.op = "verify_access"
    /\ last.pre = 3
    /\ Len(chain) = 3
    /\ last.ret[3] = TRUE

IsGrantBy(tx, owner_did) ==
    IsDict(tx) /\ tx.type = "ACCESS_GRANT" /\ tx.owner_did = owner_did

\* positions of the blocks sealed by a grant_access call of owner_did
GrantBlocks(owner_did) == {i \in 1..Len(chain) : IsGrantBy(TxOf(i), owner_did)}

\* the k-th of them, oldest first
GrantBlock(owner_did, k) ==
    CHOOSE i \in GrantBlocks(owner_did) :
        Cardinality({j \in GrantBlocks(owner_did) : j < i}) = k - 1

\* C19: get_user_access_grants(owner) returns exactly the grants in the chain whose
\* owner is the argument, oldest first, one entry per grant_access call of that owner:
\* expired and revoked grants are listed; revokes, grants of other owners and the
\* genesis entry are not.
C19_GrantsOfOwner ==
    last.op = "get_user_access_grants"
    => LET owner_did == last.ret[1]
           grants == last.ret[2]
       IN /\ Len(grants) = Cardinality(GrantBlocks(owner_did))
          /\ \A k \in 1..Len(grants) : grants[k] = TxOf(GrantBlock(owner_did, k))

\* two grants of one owner are listed oldest first; the older one has expired
C19_Witness ==
    /\ last.op = "get_user_access_grants"
    /\ last.ret[1] = "did:vpn:A"
    /\ Len(chain) = 3
    /\ IsGrantBy(TxOf(2), "did:vpn:A") /\ IsGrantBy(TxOf(3), "did:vpn:A")
    /\ TxOf(2) # TxOf(3)
    /\ TxOf(2).expires_at <= now
    /\ last.ret[2] = <<TxOf(2), TxOf(3)>>

\* a revoked grant stays listed; the revoke and the other owner's list stay apart
C19_WitnessRevoked ==
    /\ last.op = "get_user_access_grants"
    /\ last.ret[1] = "did:vpn:A"
    /\ Len(chain) = 3
    /\ IsGrantFor(TxOf(2), "did:vpn:A", "did:vpn:B")
    /\ IsRevokeFor(TxOf(3), "did:vpn:A", "did:vpn:B")
    /\ last.ret[2] = <<TxOf(2)>>

HoldsGenesisTx(i) ==
    \E k \in 1..Len(chain[i].transactions) : chain[i].transactions[k] = GenesisTx

\* C20: in every reachable state the genesis entry is in block 0 and in no other block;
\* a new ledger has a chain of length 1; a create_genesis_block() call on a ledger
\* whose chain is not empty changes nothing.
C20_OneGenesis ==
    /\ [](\A i \in 1..Len(chain) : HoldsGenesisTx(i) <=> i = 1)
    /\ [](last.op = "__init__" => Len(chain) = 1)
    /\ [][last'.op = "create_genesis_block"
          => UNCHANGED <<chain, pending_transactions, difficulty>>]_vars

\* create_genesis_block() called again after two blocks were sealed
C20_Witness ==
    /\ last.op = "create_genesis_block"
    /\ last.pre = 3
    /\ Len(chain) = 3
    /\ HoldsGenesisTx(1) /\ ~HoldsGenesisTx(2) /\ ~HoldsGenesisTx(3)

\* the digest block i would have with nonce n and its other stored fields
DigestWith(i, n) ==
    compute_hash(chain[i].index, chain[i].transactions, chain[i].timestamp,
                 chain[i].previous_hash, n)

Sealed(i, n) == Prefix(DigestWith(i, n), difficulty) = Zeros(difficulty)

\* C21: the nonce of every sealed block is the least n >= 0 whose digest begins with
\* `difficulty` zero symbols (the search starts at 0 and goes up by one); under
\* difficulty 0 the search makes no iteration and the nonce is 0.
C21_LeastNonce ==
    \A i \in 1..Len(chain) :
        /\ chain[i].nonce >= 0
        /\ Sealed(i, chain[i].nonce)
        /\ \A n \in 0..(chain[i].nonce - 1) : ~Sealed(i, n)
        /\ difficulty = 0 => chain[i].nonce = 0

\* a block sealed after at least two failed attempts
C21_Witness ==
    /\ difficulty >= 2
    /\ Len(chain) = SealMaxChain
    /\ last.op \in {"grant_access", "revoke_access"}
    /\ chain[Len(chain)].nonce >= 2

\* blocks sealed under difficulty 0
C21_WitnessNoWork ==
    /\ difficulty = 0
    /\ Len(chain) = SealMaxChain
    /\ \A i \in 1..Len(chain) : chain[i].nonce = 0

\* positions inside block i of the grants and revokes from owner_did to target_did
PairTxs(i, owner_did, target_did) ==
    {k \in 1..Len(chain[i].transactions) :
        \/ IsGrantFor(chain[i].transactions[k], owner_did, target_did)
        \/ IsRevokeFor(chain[i].transactions[k], owner_did, target_did)}

\* blocks holding at least one grant or revoke of the pair
BatchBlocks(owner_did, target_did) ==
    {i \in 2..Len(chain) : PairTxs(i, owner_did, target_did) # {}}

Least(K) == CHOOSE k \in K : \A m \in K : k <= m

\* C22 as stated: when the newest block of a pair holds several transactions of the
\* pair, verify_access is decided by the first of them in insertion order (the oldest
\* of the block): True exactly when that one is an unexpired grant.
C22_OldestOfBlockDecides ==
    \A p \in Pairs :
      LET S == BatchBlocks(p[1], p[2]) IN
        (S # {} /\ Cardinality(PairTxs(Newest(S), p[1], p[2])) >= 2)
        => LET tx == chain[Newest(S)].transactions[Least(PairTxs(Newest(S), p[1], p[2]))]
           IN verify_access(chain, p[2], p[1], now)
                = (tx.type = "ACCESS_GRANT" /\ tx.expires_at > now)

\* C22 amended: when the newest block of a pair holds several transactions of the pair,
\* verify_access is decided by the first of them in insertion order that is an
\* unexpired grant (True) or a revoke (False), expired grants being passed over; it is
\* False when the block has none and no older block holds a transaction of the pair.
\* An unexpired grant followed by a revoke in one block gives True.
C22_FirstDecisiveOfBlock ==
    \A p \in Pairs :
      LET S == BatchBlocks(p[1], p[2]) IN
        (S # {} /\ Cardinality(PairTxs(Newest(S), p[1], p[2])) >= 2)
        => LET txs == chain[Newest(S)].transactions
               D == {k \in PairTxs(Newest(S), p[1], p[2]) : Decides(txs[k], p[2], p[1], now)}
           IN /\ D # {} => (verify_access(chain, p[2], p[1], now)
                              = (txs[Least(D)].type = "ACCESS_GRANT"))
              /\ (D = {} /\ Cardinality(S) = 1) => ~verify_access(chain, p[2], p[1], now)

\* one block holding an unexpired grant and then a revoke of the same pair
C22_Witness ==
    /\ Len(chain) = 2
    /\ Len(chain[2].transactions) = 2
    /\ IsGrantFor(chain[2].transactions[1], "did:vpn:A", "did:vpn:B")
    /\ chain[2].transactions[1].expires_at > now
    /\ IsRevokeFor(chain[2].transactions[2], "did:vpn:A", "did:vpn:B")
    /\ last.op = "verify_access" /\ last.ret = <<"did:vpn:B", "did:vpn:A", TRUE>>

\* C23: the ledger of the DemoController is apart from the ledger of the web
\* application: whatever grants the application seals, the controller's chain keeps
\* its genesis block only, and create_demo_scenario reports total_blocks = 1 and
\* total_transactions = 1.
C23_DemoLedgerApart ==
    /\ Len(demo_blockchain.chain) = 1
    /\ demo_blockchain.chain[1].transactions = <<GenesisTx>>
    /\ last.op = "create_demo_scenario"
       => /\ last.ret.total_blocks = 1
          /\ last.ret.total_transactions = 1

\* the /demo page asked for after the application sealed two grants
C23_Witness ==
    /\ last.op = "create_demo_scenario"
    /\ Len(chain) = 3
    /\ \A i \in 2..3 : IsDict(TxOf(i)) /\ TxOf(i).type = "ACCESS_GRANT"
    /\ last.ret.total_blocks = 1

\* a duration that is not an integer: a number with a fraction, a text that is not a
\* decimal numeral, or null
NonIntegerDuration(v) ==
    \/ v.kind = "float" /\ v.tenths % 10 # 0
    \/ v.kind = "str" /\ ~PyInt(v).ok
    \/ v.kind = "null"

\* the requests the handler is to refuse
Refused(request) ==
    \/ request.session = ""
    \/ request.target_did = <<>>
    \/ ~StartsWith(JoinWords(request.target_did), "did:vpn:")
    \/ NonIntegerDuration(request.duration)
    \/ (request.duration.kind # "missing" /\ PyInt(request.duration).ok
          /\ PyInt(request.duration).value < 60)
    \/ JoinWords(request.target_did) \notin Users

\* C24 as stated: the /api/grant_access handler changes the ledger only when it
\* succeeds: a call that returns an error appended no block, and a request with no
\* session, an empty target DID, a target DID without the "did:vpn:" prefix, a
\* non-integer duration, a duration below 60 or a target DID of no user returns an
\* error; every grant sealed through the handler has duration >= 60.
C24_LedgerChangedOnlyOnSuccess ==
    /\ last.op = "api_grant_access"
       => /\ last.ret.status # 200 => Len(chain) = last.pre
          /\ Refused(last.ret.request) => last.ret.status # 200
    /\ \A i \in 2..Len(chain) : TxOf(i).duration >= 60

\* the 60-second floor alone: every grant sealed through the handler has duration >= 60
C24_SealedDurationFloor ==
    \A i \in 2..Len(chain) : TxOf(i).type = "ACCESS_GRANT" /\ TxOf(i).duration >= 60

\* C25: across any step of the ledger (grant_access, revoke_access, a query, the clock
\* moving on) verify_access(u, r) goes from False to True only when the step is
\* grant_access(r, u, d) with d > 0; the clock and revokes can only turn it from True
\* to False.
C25_AccessOnlyByGrant ==
    [][\A u \in Ids, r \in Ids :
         (~verify_access(chain, u, r, now) /\ verify_access(chain', u, r, now'))
         => /\ last'.op = "grant_access"
            /\ Len(chain') = Len(chain) + 1
            /\ last'.ret.owner_did = r
            /\ last'.ret.target_did = u
            /\ last'.ret.duration > 0]_vars

\* a grant sealed on top of a revoke of the same pair gives the access back
C25_Witness ==
    /\ last.op = "grant_access"
    /\ Len(chain) = 3
    /\ last.ret.duration > 0
    /\ IsRevokeFor(TxOf(2), last.ret.owner_did, last.ret.target_did)
    /\ ~verify_access(SubSeq(chain, 1, 2), last.ret.target_did, last.ret.owner_did, now)
    /\ verify_access(chain, last.ret.target_did, last.ret.owner_did, now)

\* the grants and revokes from owner_did to target_did the ledger received, oldest first
RECURSIVE PairHistory(_, _, _)
PairHistory(i, owner_did, target_did) ==
    IF i > Len(chain) THEN <<>>
    ELSE SelectSeq(chain[i].transactions,
                   LAMBDA tx : IsGrantFor(tx, owner_did, target_did)
                                 \/ IsRevokeFor(tx, owner_did, target_did))
         \o PairHistory(i + 1, owner_did, target_did)

\* the answer read off a pair's own history at reading t: the latest entry that is an
\* unexpired grant or a revoke decides
HistoryAnswer(h, user_did, resource_did, t) ==
    LET D == {k \in 1..Len(h) : Decides(h[k], user_did, resource_did, t)}
    IN /\ D # {}
       /\ h[CHOOSE k \in D : \A m \in D : m <= k].type = "ACCESS_GRANT"

\* C26: verify_access(u, r) is a function of the grants and revokes with owner r and
\* target u alone (and of the clock): ledgers that received the same ones, whatever
\* they received for other pairs in between, answer alike.  A grant from A to B does
\* not make verify_access(A, B) True, and a revoke by C does not cancel a grant by A.
C26_PairIsolation ==
    \A u \in Ids3, r \in Ids3 :
        /\ verify_access(chain, u, r, now)
             = HistoryAnswer(PairHistory(1, r, u), u, r, now)
        /\ PairHistory(1, r, u) = <<>> => ~verify_access(chain, u, r, now)

\* A's grant to B still gives B access after C revoked B, and gives A none to B
C26_Witness ==
    /\ Len(chain) = 3
    /\ IsGrantFor(TxOf(2), "did:vpn:A", "did:vpn:B")
    /\ IsRevokeFor(TxOf(3), "did:vpn:C", "did:vpn:B")
    /\ last.op = "verify_access" /\ last.ret = <<"did:vpn:B", "did:vpn:A", TRUE>>
    /\ ~verify_access(chain, "did:vpn:A", "did:vpn:B", now)

\* C27: mine_pending_transactions called with an empty pending pool appends no block
\* and changes nothing, so the chain never holds a block whose transaction list is
\* empty.
C27_EmptyPoolNoOp ==
    /\ [](\A i \in 1..Len(chain) : chain[i].transactions # <<>>)
    /\ [][(last'.op = "mine_pending_transactions" /\ pending_transactions = <<>>)
          => UNCHANGED <<chain, pending_transactions, difficulty>>]_vars

\* mine_pending_transactions called again right after a block was sealed
C27_Witness ==
    /\ last.op = "mine_pending_transactions"
    /\ pending_transactions = <<>>
    /\ Len(chain) = 2
    /\ last.pre = 2

====
